---- MODULE Spec2Model ----
(***************************************************************************)
(* Career Development Hub: score -> level resolution, scoring rule lines,  *)
(* the employee skill ledger, assessment application, role readiness, the  *)
(* course request workflow, skill expiry and its notifier, and the role    *)
(* library export.                                                         *)
(*                                                                         *)
(* A proficiency level is identified by its sequence (unique per           *)
(* cdm.proficiency.level, cdm_core.py:15-17); the empty recordset is       *)
(* NoLevel.  Scores and dates are integers.                                *)
(***************************************************************************)
EXTENDS Integers, Sequences, FiniteSets, TLC

VARIABLES
    levels,       \* sequences of the cdm.proficiency.level records
    lines,        \* cdm.scoring.rule.line records
    nextLineId,   \* id the next created scoring rule line gets
    lineOp,       \* last create/write on a scoring rule line and its outcome
    resolved,     \* last call of cdm_score_to_level and what it returned
    config,       \* ir.config_parameter values of the cdm.* keys
    now,          \* the clock: fields.Datetime.now() and fields.Date.today()
    ledger,       \* cdm.employee.skill records
    nextSkillId,  \* id the next created cdm.employee.skill record gets
    mappings,     \* cdm.assessment.skill.map records of the assessment, in order
    attempt,      \* the cdm.assessment.attempt record last applied
    ledgerOp,     \* last operation on the ledger, its user and its outcome
    txn,          \* per worker, the open action_apply_result transaction
    employee,     \* the hr.employee record
    profiles,     \* cdm.role.profile records
    profileLines, \* cdm.role.profile.line records
    readiness,    \* cdm_readiness_score and cdm_gap_count as last read
    requests,     \* cdm.course.request records
    nextRequestId, \* id the next created cdm.course.request record gets
    threshold,    \* ir.config_parameter cdm.course_cost_hr_threshold, as a number
    accounts,     \* user_id of the employee and of the employee's parent_id
    courseOp,     \* last operation on a course request and its outcome
    steps,        \* cdm.course.approval.step records
    scheduled,    \* activities the last operation scheduled, in order
    sheet,        \* data rows of the role library sheet
    exported,     \* role_lines of the last export_role_library run
    lineTxn       \* per worker, the open transaction creating a scoring rule line

scoringVars == <<levels, lines, nextLineId, lineOp, resolved, lineTxn>>
ledgerVars == <<config, now, ledger, nextSkillId, mappings, attempt, ledgerOp, txn>>
roleVars == <<employee, profiles, profileLines, readiness>>
courseVars == <<requests, nextRequestId, threshold, accounts, courseOp, steps, scheduled>>
importVars == <<sheet, exported>>
vars == <<levels, lines, nextLineId, lineOp, resolved,
          config, now, ledger, nextSkillId, mappings, attempt, ledgerOp, txn,
          employee, profiles, profileLines, readiness,
          requests, nextRequestId, threshold, accounts, courseOp, steps, scheduled,
          sheet, exported, lineTxn>>

\* what the operations of one part leave alone
OutsideScoring == <<ledgerVars, roleVars, courseVars, importVars, lineTxn>>
OutsideLedger == <<scoringVars, roleVars, courseVars, importVars>>
OutsideRole == <<levels, lines, nextLineId, lineOp, resolved,
                 config, nextSkillId, mappings, attempt, ledgerOp, txn,
                 courseVars, importVars, lineTxn>>

----------------------------------------------------------------------------
\* Bounds

MaxSeq == 5          \* proficiency level sequences are 1..MaxSeq
MaxRuleSeq == 2      \* level sequences used by scoring rule lines
MaxScore == 2        \* scoring rule lines have bounds in 0..MaxScore
MaxRuleLines == 3    \* lines of the rule the resolver is applied to
MaxLines == 2        \* scoring rule lines created in one run
NumLevels == 3       \* proficiency levels in the ledger runs
MaxRows == 3         \* cdm.employee.skill create calls that reach the store
MaxTime == 2         \* the clock runs over 1..MaxTime
MaxProfiles == 2     \* cdm.role.profile records

\* Program constants

NoLevel == 0         \* empty cdm.proficiency.level recordset
NoRule == 0          \* scoring_rule=None
BucketWidth == 20    \* score // 20
ExpiryMonths == 12   \* default_skill_expiry_months
NoDate == 0          \* expires_on = False

Rules == {1, 2}       \* cdm.scoring.rule records
LineScores == 0..MaxScore
Scores == (0 - 1)..(MaxScore + 1)
BucketScores == (0 - BucketWidth)..(BucketWidth * MaxSeq)

----------------------------------------------------------------------------
\* cdm.core.mixin

\* line.min_score <= score <= line.max_score
LineMatches_ExclusiveMin(line, score) ==
    line.min_score < score /\ score <= line.max_score

LineMatches(line, score) ==
    line.min_score <= score /\ score <= line.max_score

\* scoring_rule.line_ids.sorted("min_score"): ascending, stable on the
\* model order (min_score, then id)
RECURSIVE SortedByMinScore(_)
SortedByMinScore(S) ==
    IF S = {} THEN <<>>
    ELSE LET first == CHOOSE l \in S : \A m \in S :
                          \/ l.min_score < m.min_score
                          \/ l.min_score = m.min_score /\ l.id <= m.id
         IN  <<first>> \o SortedByMinScore(S \ {first})

\* the for loop over the sorted lines: index of the first matching line, 0 if
\* the loop runs to its end
RECURSIVE FirstMatch(_, _, _)
FirstMatch(sorted, score, i) ==
    IF i > Len(sorted) THEN 0
    ELSE IF LineMatches(sorted[i], score) THEN i
    ELSE FirstMatch(sorted, score, i + 1)

\* int(score // 20) + 1
BucketSeq_NoOffset(score) == score \div BucketWidth

BucketSeq(score) == (score \div BucketWidth) + 1

\* search([("sequence", "<=", bucket)], order="sequence desc", limit=1)
LevelForBucket(lvls, score) ==
    LET found == {l \in lvls : l <= BucketSeq(score)}
    IN  IF found = {} THEN NoLevel
        ELSE CHOOSE l \in found : \A m \in found : m <= l

RuleLines(ruleLines, rule) == {l \in ruleLines : l.rule_id = rule}

\* cdm_score_to_level(score, scoring_rule=None): when a rule is given and no
\* line matches, control falls out of the loop into the bucket search
cdm_score_to_level(lvls, ruleLines, score, rule) ==
    LET sorted == SortedByMinScore(RuleLines(ruleLines, rule))
        i == FirstMatch(sorted, score, 1)
    IN  IF rule # NoRule /\ i # 0 THEN sorted[i].level_id
        ELSE LevelForBucket(lvls, score)

----------------------------------------------------------------------------
\* res.config.settings, users and reference data

\* defaults of the config parameters (cdm_core.py:23-29)
DefaultConfig ==
    [allow_assessment_downgrade |-> FALSE,
     require_manager_verification_for_soft_skills |-> FALSE,
     enable_skill_expiry |-> TRUE,
     default_skill_expiry_months |-> ExpiryMonths]

NoAttempt ==
    [employee_id |-> 0, score |-> 0, awarded_level_id |-> NoLevel, state |-> "none"]
NoLedgerOp == [op |-> "none", user |-> "none", verified |-> FALSE, result |-> "none"]

NoProfile == 0       \* empty cdm.role.profile recordset
NoJob == 0           \* job_id = False
NoDepartment == 0    \* department_id = False

NoReadiness == [read |-> FALSE, score |-> [num |-> 0, den |-> 1], gap_count |-> 0]

Workers == {1, 2}
NoLineTxn == [w \in Workers |-> [pc |-> "idle", rec |-> <<>>]]

NoUser == "none"     \* empty res.users recordset
NoCourseOp == [op |-> "none", id |-> 0, from |-> "none", result |-> "none",
               sink |-> "none"]
NoExport == [ran |-> FALSE, result |-> "none", lines |-> <<>>]

\* the course part of a state in which no course request is looked at
CourseUnused ==
    /\ requests = {}
    /\ nextRequestId = 1
    /\ threshold = 0
    /\ accounts = [user_id |-> NoUser, manager_user_id |-> NoUser]
    /\ courseOp = NoCourseOp
    /\ steps = {}
    /\ scheduled = <<>>

\* the importer part of a state in which no sheet is exported
ImportUnused ==
    /\ sheet = <<>>
    /\ exported = NoExport

\* no transaction on a scoring rule line is open
RaceUnused == lineTxn = NoLineTxn

\* the course and importer parts of a state in which neither is looked at
RestUnused == CourseUnused /\ ImportUnused /\ RaceUnused

\* the role part of a state in which no employee is looked at
RoleUnused ==
    /\ employee = [job_id |-> NoJob, department_id |-> NoDepartment,
                   cdm_role_profile_id |-> NoProfile]
    /\ profiles = {}
    /\ profileLines = {}
    /\ readiness = NoReadiness

IdleTxn == [pc |-> "idle", user |-> "none", att |-> NoAttempt,
            awarded |-> NoLevel, found |-> {}]
NoTxn == [w \in Workers |-> IdleTxn]

\* the ledger part of a state in which no ledger operation runs
LedgerUnused ==
    /\ config = DefaultConfig
    /\ now = 1
    /\ ledger = {}
    /\ nextSkillId = 1
    /\ mappings = <<>>
    /\ attempt = NoAttempt
    /\ ledgerOp = NoLedgerOp
    /\ txn = NoTxn
    /\ RoleUnused
    /\ RestUnused

----------------------------------------------------------------------------
\* cdm.scoring.rule.line

NoLineOp == [op |-> "none", result |-> "none"]
NoResolved == [called |-> FALSE, score |-> 0, rule |-> NoRule, level |-> NoLevel]

Line(id, rule, lo, hi, lvl) ==
    [id |-> id, rule_id |-> rule, min_score |-> lo, max_score |-> hi, level_id |-> lvl]

\* the search_count domain of _check_ranges
Overlapping_Strict(all, rec) ==
    {o \in all : /\ o.rule_id = rec.rule_id
                 /\ o.id # rec.id
                 /\ o.min_score < rec.max_score
                 /\ o.max_score > rec.min_score}

Overlapping(all, rec) ==
    {o \in all : /\ o.rule_id = rec.rule_id
                 /\ o.id # rec.id
                 /\ o.min_score <= rec.max_score
                 /\ o.max_score >= rec.min_score}

\* _check_ranges for one record, evaluated on the rows as written
RangesOk(all, rec) ==
    /\ ~(rec.max_score < rec.min_score)
    /\ Overlapping(all, rec) = {}

\* create(vals): the row is inserted, then the constraint runs; a
\* ValidationError aborts the transaction and nothing is kept
CreateLine(rule, lo, hi, lvl) ==
    /\ nextLineId <= MaxLines
    /\ LET rec == Line(nextLineId, rule, lo, hi, lvl)
           written == lines \cup {rec}
       IN  IF RangesOk(written, rec)
           THEN /\ lines' = written
                /\ nextLineId' = nextLineId + 1
                /\ lineOp' = [op |-> "create", result |-> "ok"]
           ELSE /\ lineOp' = [op |-> "create", result |-> "ValidationError"]
                /\ UNCHANGED <<lines, nextLineId>>
    /\ UNCHANGED <<levels, resolved>>
    /\ UNCHANGED OutsideScoring

\* write(vals) on one record with min_score, max_score and rule_id in vals
WriteLine(old, rule, lo, hi) ==
    /\ old \in lines
    /\ LET rec == Line(old.id, rule, lo, hi, old.level_id)
           written == (lines \ {old}) \cup {rec}
       IN  IF RangesOk(written, rec)
           THEN /\ lines' = written
                /\ lineOp' = [op |-> "write", result |-> "ok"]
           ELSE /\ lineOp' = [op |-> "write", result |-> "ValidationError"]
                /\ UNCHANGED lines
    /\ UNCHANGED <<levels, nextLineId, resolved>>
    /\ UNCHANGED OutsideScoring

InitRuleLines ==
    /\ levels = 1..1
    /\ lines = {}
    /\ nextLineId = 1
    /\ lineOp = NoLineOp
    /\ resolved = NoResolved
    /\ LedgerUnused

NextRuleLines ==
    \/ \E rule \in Rules, lo \in LineScores, hi \in LineScores, lvl \in levels :
          CreateLine(rule, lo, hi, lvl)
    \/ \E old \in lines, rule \in Rules, lo \in LineScores, hi \in LineScores :
          WriteLine(old, rule, lo, hi)

SpecRuleLines == InitRuleLines /\ [][NextRuleLines]_vars

\* ---- two writers creating lines of a rule, each in its own transaction

\* the rows a transaction's search_count sees: the committed rows and the row
\* it inserted itself, never the uncommitted row of the other transaction
VisibleTo(w) == lines \cup {lineTxn[w].rec}

\* create(vals), first step: the row is inserted in the writer's transaction
InsertLine(w, rule, lo, hi, lvl) ==
    /\ lineTxn[w].pc = "idle"
    /\ nextLineId <= MaxLines
    /\ lineTxn' = [lineTxn EXCEPT ![w] =
                      [pc |-> "inserted", rec |-> Line(nextLineId, rule, lo, hi, lvl)]]
    /\ nextLineId' = nextLineId + 1
    /\ UNCHANGED <<levels, lines, lineOp, resolved>>
    /\ UNCHANGED <<ledgerVars, roleVars, courseVars, importVars>>

\* create(vals), second step: _check_ranges runs on the inserted row; a
\* ValidationError rolls the transaction back
CheckRanges(w) ==
    /\ lineTxn[w].pc = "inserted"
    /\ IF RangesOk(VisibleTo(w), lineTxn[w].rec)
       THEN /\ lineTxn' = [lineTxn EXCEPT ![w].pc = "checked"]
            /\ UNCHANGED lineOp
       ELSE /\ lineTxn' = [lineTxn EXCEPT ![w] = NoLineTxn[w]]
            /\ lineOp' = [op |-> "create", result |-> "ValidationError"]
    /\ UNCHANGED <<levels, lines, nextLineId, resolved>>
    /\ UNCHANGED <<ledgerVars, roleVars, courseVars, importVars>>

\* the request ends and its transaction commits: the row becomes visible
CommitLine(w) ==
    /\ lineTxn[w].pc = "checked"
    /\ lines' = lines \cup {lineTxn[w].rec}
    /\ lineTxn' = [lineTxn EXCEPT ![w] = NoLineTxn[w]]
    /\ lineOp' = [op |-> "create", result |-> "ok"]
    /\ UNCHANGED <<levels, nextLineId, resolved>>
    /\ UNCHANGED <<ledgerVars, roleVars, courseVars, importVars>>

NextRuleRace ==
    \/ \E w \in Workers, rule \in Rules, lo \in LineScores, hi \in LineScores,
          lvl \in levels : InsertLine(w, rule, lo, hi, lvl)
    \/ \E w \in Workers : CheckRanges(w)
    \/ \E w \in Workers : CommitLine(w)

SpecRuleRace == InitRuleLines /\ [][NextRuleRace]_vars

----------------------------------------------------------------------------
\* Resolver applied to stored rules

Resolve(score, rule) ==
    /\ resolved' = [called |-> TRUE, score |-> score, rule |-> rule,
                    level |-> cdm_score_to_level(levels, lines, score, rule)]
    /\ UNCHANGED <<levels, lines, nextLineId, lineOp>>
    /\ UNCHANGED OutsideScoring

\* a rule as the single-writer create/write above leave it
StoredRule(n, f) ==
    {Line(i, 1, f[i][1], f[i][2], f[i][3]) : i \in 1..n}

InitScoring ==
    /\ levels \in SUBSET (1..MaxRuleSeq)
    /\ \E n \in 0..MaxRuleLines :
          \E f \in [1..n -> {v \in LineScores \X LineScores \X levels : v[1] <= v[2]}] :
             /\ lines = StoredRule(n, f)
             /\ \A l \in StoredRule(n, f) : RangesOk(StoredRule(n, f), l)
    /\ nextLineId = Cardinality(lines) + 1
    /\ lineOp = NoLineOp
    /\ resolved = NoResolved
    /\ LedgerUnused

NextScoring == \E score \in Scores, rule \in {NoRule, 1} : Resolve(score, rule)

SpecScoring == InitScoring /\ [][NextScoring]_vars

InitBucket ==
    /\ levels \in SUBSET (1..MaxSeq)
    /\ lines = {}
    /\ nextLineId = 1
    /\ lineOp = NoLineOp
    /\ resolved = NoResolved
    /\ LedgerUnused

NextBucket == \E score \in BucketScores : Resolve(score, NoRule)

SpecBucket == InitBucket /\ [][NextBucket]_vars

----------------------------------------------------------------------------
\* cdm.employee.skill

Users == {"employee", "manager", "hr_admin"}
Employees == {1}
Skills == {1, 2}

\* cdm.skill.skill_type of the two skills
SkillType(skill) == IF skill = 1 THEN "hard" ELSE "soft"

\* self.env.user.has_group(...)
has_group(user, group) ==
    \/ user = "manager" /\ group = "group_cdm_manager"
    \/ user = "hr_admin" /\ group = "group_cdm_hr_admin"

Get(vals, key, default) == IF key \in DOMAIN vals THEN vals[key] ELSE default

\* cdm_get_expiry_date(): False when expiry is switched off
cdm_get_expiry_date(cfg, today) ==
    IF ~cfg.enable_skill_expiry THEN NoDate
    ELSE today + cfg.default_skill_expiry_months

\* cdm_is_expired(expires_on)
cdm_is_expired(cfg, expires_on, today) ==
    IF expires_on = NoDate THEN FALSE
    ELSE cfg.enable_skill_expiry /\ expires_on < today

\* _check_verification_rights: TRUE when it returns, FALSE when it raises
check_verification_rights(user) ==
    \/ has_group(user, "group_cdm_hr_admin")
    \/ has_group(user, "group_cdm_manager")

\* _check_soft_skill_verification_policy for one record: TRUE when it passes
check_soft_skill_verification_policy(cfg, user, rec) ==
    ~(/\ cfg.require_manager_verification_for_soft_skills
      /\ SkillType(rec.skill_id) = "soft"
      /\ rec.verification_status = "verified"
      /\ ~has_group(user, "group_cdm_manager")
      /\ ~has_group(user, "group_cdm_hr_admin"))

\* unique(employee_id, skill_id)
UniqueViolation_Unchecked(led, rec) == FALSE

UniqueViolation(led, rec) ==
    \E r \in led : /\ r.id # rec.id
                   /\ r.employee_id = rec.employee_id
                   /\ r.skill_id = rec.skill_id

\* vals["last_updated"] of write: stamped when the key is in vals, whether or
\* not the value differs from the stored one
WriteStamp(old, vals, t) ==
    IF "current_level_id" \in DOMAIN vals THEN t ELSE old.last_updated

\* create(vals_list) for one vals: the outcome and the ledger it leaves;
\* is_expired is computed when the record is stored
CreateRow(led, nid, cfg, t, user, vals) ==
    LET source == Get(vals, "source_type", "self_declared")
        given == Get(vals, "expires_on", NoDate)
        expires == IF source = "assessed" /\ given = NoDate
                   THEN cdm_get_expiry_date(cfg, t) ELSE given
        rec == [id |-> nid,
                employee_id |-> vals["employee_id"],
                skill_id |-> vals["skill_id"],
                current_level_id |-> vals["current_level_id"],
                source_type |-> source,
                verification_status |-> Get(vals, "verification_status", "none"),
                last_updated |-> t,
                expires_on |-> expires,
                is_expired |-> cdm_is_expired(cfg, expires, t)]
    IN  IF UniqueViolation(led, rec)
        THEN [ledger |-> led, nextId |-> nid, result |-> "IntegrityError"]
        ELSE IF ~check_soft_skill_verification_policy(cfg, user, rec)
        THEN [ledger |-> led, nextId |-> nid, result |-> "ValidationError"]
        ELSE [ledger |-> led \cup {rec}, nextId |-> nid + 1, result |-> "ok"]

\* write(vals) on one record; the stored is_expired is recomputed when
\* expires_on is among the written fields (@api.depends("expires_on"))
WriteRow(led, nid, cfg, t, user, old, vals) ==
    LET source == Get(vals, "source_type", old.source_type)
        given == Get(vals, "expires_on", NoDate)
        defaulted == Get(vals, "source_type", "") = "assessed" /\ given = NoDate
        expires == IF defaulted THEN cdm_get_expiry_date(cfg, t)
                   ELSE Get(vals, "expires_on", old.expires_on)
        rec == [id |-> old.id,
                employee_id |-> Get(vals, "employee_id", old.employee_id),
                skill_id |-> Get(vals, "skill_id", old.skill_id),
                current_level_id |-> Get(vals, "current_level_id", old.current_level_id),
                source_type |-> source,
                verification_status |->
                    Get(vals, "verification_status", old.verification_status),
                last_updated |-> WriteStamp(old, vals, t),
                expires_on |-> expires,
                is_expired |->
                    IF defaulted \/ "expires_on" \in DOMAIN vals
                    THEN cdm_is_expired(cfg, expires, t)
                    ELSE old.is_expired]
        written == (led \ {old}) \cup {rec}
    IN  IF Get(vals, "verification_status", "") = "verified"
              /\ ~check_verification_rights(user)
        THEN [ledger |-> led, nextId |-> nid, result |-> "UserError"]
        ELSE IF UniqueViolation(written, rec)
        THEN [ledger |-> led, nextId |-> nid, result |-> "IntegrityError"]
        ELSE IF ({"verification_status", "skill_id"} \cap DOMAIN vals) # {}
              /\ ~check_soft_skill_verification_policy(cfg, user, rec)
        THEN [ledger |-> led, nextId |-> nid, result |-> "ValidationError"]
        ELSE [ledger |-> written, nextId |-> nid, result |-> "ok"]

\* a user creates a ledger row directly
Create(user, vals) ==
    /\ nextSkillId <= MaxRows
    /\ LET out == CreateRow(ledger, nextSkillId, config, now, user, vals)
       IN  /\ ledger' = out.ledger
           /\ nextSkillId' = out.nextId
           /\ ledgerOp' = [op |-> "create", user |-> user,
                           verified |-> Get(vals, "verification_status", "none") = "verified",
                           result |-> out.result]
    /\ UNCHANGED <<config, now, mappings, attempt, txn>>
    /\ UNCHANGED OutsideLedger

\* a user writes a ledger row directly
Write(user, old, vals) ==
    /\ old \in ledger
    /\ LET out == WriteRow(ledger, nextSkillId, config, now, user, old, vals)
       IN  /\ ledger' = out.ledger
           /\ ledgerOp' = [op |-> "write", user |-> user,
                           verified |-> Get(vals, "verification_status", "none") = "verified",
                           result |-> out.result]
    /\ UNCHANGED <<config, now, nextSkillId, mappings, attempt, txn>>
    /\ UNCHANGED OutsideLedger

\* the clock advances
Tick ==
    /\ now < MaxTime
    /\ now' = now + 1
    /\ UNCHANGED <<config, ledger, nextSkillId, mappings, attempt, ledgerOp, txn>>
    /\ UNCHANGED OutsideLedger

----------------------------------------------------------------------------
\* cdm.assessment.attempt

Mapping(skill, rule, cap) ==
    [skill_id |-> skill, scoring_rule_id |-> rule, max_level_id |-> cap]

DraftAttempt(emp, score) ==
    [employee_id |-> emp, score |-> score,
     awarded_level_id |-> NoLevel, state |-> "draft"]

\* awarded after the cap of the mapping
Awarded_Uncapped(raw, cap) == raw

Awarded(raw, cap) ==
    IF cap # NoLevel /\ raw # NoLevel /\ raw > cap THEN cap ELSE raw

\* allow_downgrade or awarded.sequence >= emp_skill.current_level_id.sequence
DowngradeAllows_StrictlyHigher(allow, awarded, existing) ==
    allow \/ awarded > existing

DowngradeAllows(allow, awarded, existing) ==
    allow \/ awarded >= existing

\* "current_level_id": awarded.id, whatever level the row held
WrittenLevel_OneStep(awarded, held) ==
    IF held < awarded THEN held + 1 ELSE awarded

WrittenLevel(awarded, held) == awarded

\* search([employee_id, skill_id], limit=1)
SearchSkill(led, emp, skill) ==
    LET found == {r \in led : r.employee_id = emp /\ r.skill_id = skill}
    IN  IF found = {} THEN {}
        ELSE {CHOOSE r \in found : \A o \in found : r.id <= o.id}

\* the loop of action_apply_result from mapping i on; it stops at the first
\* create or write that raises
RECURSIVE ApplyMappings(_, _, _, _, _)
ApplyMappings(maps, i, acc, user, att) ==
    IF i > Len(maps) \/ acc.result # "ok" THEN acc
    ELSE
      LET m == maps[i]
          awarded == Awarded(cdm_score_to_level(levels, lines, att.score, m.scoring_rule_id),
                             m.max_level_id)
          emp_skill == SearchSkill(acc.ledger, att.employee_id, m.skill_id)
          vals == [employee_id |-> att.employee_id,
                   skill_id |-> m.skill_id,
                   current_level_id |->
                       WrittenLevel(awarded,
                                    IF emp_skill = {} THEN NoLevel
                                    ELSE (CHOOSE r \in emp_skill : TRUE).current_level_id),
                   source_type |-> "assessed",
                   verification_status |-> "verified",
                   expires_on |-> cdm_get_expiry_date(config, now)]
      IN  IF awarded = NoLevel THEN ApplyMappings(maps, i + 1, acc, user, att)
          ELSE IF emp_skill = {}
          THEN LET out == CreateRow(acc.ledger, acc.nextId, config, now, user, vals)
               IN  ApplyMappings(maps, i + 1,
                                 [ledger |-> out.ledger, nextId |-> out.nextId,
                                  result |-> out.result, wrote |-> TRUE], user, att)
          ELSE LET old == CHOOSE r \in emp_skill : TRUE
               IN  IF DowngradeAllows(config.allow_assessment_downgrade,
                                      awarded, old.current_level_id)
                   THEN LET out == WriteRow(acc.ledger, acc.nextId, config, now,
                                            user, old, vals)
                        IN  ApplyMappings(maps, i + 1,
                                          [ledger |-> out.ledger, nextId |-> out.nextId,
                                           result |-> out.result, wrote |-> TRUE],
                                          user, att)
                   ELSE ApplyMappings(maps, i + 1, acc, user, att)

\* action_apply_result on one attempt; an exception aborts the transaction,
\* so neither the ledger writes nor the attempt's fields are kept
\* self.cdm_score_to_level(self.score): the level stored on the attempt
attempt_level_ByFirstRule(lvls, ruleLines, att) ==
    cdm_score_to_level(lvls, ruleLines, att.score, 1)

attempt_level(lvls, ruleLines, att) ==
    cdm_score_to_level(lvls, ruleLines, att.score, NoRule)

\* the ledger the call leaves: a raise ends the transaction and none of its
\* writes is kept
Committed_KeepsPartial(before, out) == out.ledger

Committed(before, out) == IF out.result = "ok" THEN out.ledger ELSE before

\* action_apply_result in one transaction
ApplyResult(user, att) ==
    /\ LET out == ApplyMappings(mappings, 1,
                                [ledger |-> ledger, nextId |-> nextSkillId,
                                 result |-> "ok", wrote |-> FALSE], user, att)
       IN  /\ ledgerOp' = [op |-> "apply", user |-> user,
                           verified |-> out.wrote, result |-> out.result]
           /\ ledger' = Committed(ledger, out)
           /\ IF out.result = "ok"
              THEN /\ nextSkillId' = out.nextId
                   /\ attempt' = [att EXCEPT
                         !.awarded_level_id = attempt_level(levels, lines, att),
                         !.state = "done"]
              ELSE /\ attempt' = att
                   /\ UNCHANGED nextSkillId
    /\ UNCHANGED <<config, now, mappings, txn>>
    /\ UNCHANGED OutsideLedger

\* rule 1 maps score i-1 to the level of sequence i
LadderRule == {Line(i, 1, i - 1, i - 1, i) : i \in 1..NumLevels}

AttemptScores == (0 - 1)..(NumLevels - 1)

\* the attempts that can be applied: any draft attempt, or the one last applied
Attempts ==
    {DraftAttempt(e, sc) : e \in Employees, sc \in AttemptScores}
        \cup (IF attempt.state = "none" THEN {} ELSE {attempt})

AssessmentShapes ==
    {<<Mapping(1, 1, NoLevel)>>,
     <<Mapping(2, 1, 2), Mapping(1, 1, NoLevel)>>}

Configs ==
    {[DefaultConfig EXCEPT !.allow_assessment_downgrade = a,
                           !.require_manager_verification_for_soft_skills = b] :
        a \in BOOLEAN, b \in BOOLEAN}

CreateVals ==
    {[employee_id |-> e, skill_id |-> s, current_level_id |-> l,
      verification_status |-> v] :
        e \in Employees, s \in Skills, l \in 1..NumLevels, v \in {"none", "verified"}}

WriteVals ==
    {[current_level_id |-> l] : l \in 1..NumLevels}
        \cup {[verification_status |-> v] : v \in {"none", "verified"}}
        \cup {[current_level_id |-> l, verification_status |-> "verified"] :
                 l \in 1..NumLevels}

InitLedger ==
    /\ levels = 1..NumLevels
    /\ lines = LadderRule
    /\ nextLineId = NumLevels + 1
    /\ lineOp = NoLineOp
    /\ resolved = NoResolved
    /\ config \in Configs
    /\ now = 1
    /\ ledger = {}
    /\ nextSkillId = 1
    /\ mappings \in AssessmentShapes
    /\ attempt = NoAttempt
    /\ ledgerOp = NoLedgerOp
    /\ txn = NoTxn
    /\ RoleUnused
    /\ RestUnused

\* the ledger is seeded by direct creates that take the field defaults
SeedVals ==
    {[employee_id |-> e, skill_id |-> s, current_level_id |-> l] :
        e \in Employees, s \in Skills, l \in 1..NumLevels}

ApplyUsers == {"employee", "manager"}

NextLedger ==
    \/ \E user \in ApplyUsers, vals \in SeedVals : Create(user, vals)
    \/ \E user \in ApplyUsers, att \in Attempts : ApplyResult(user, att)

SpecLedger == InitLedger /\ [][NextLedger]_vars

\* ---- assessments with several mappings for one skill, applied again

\* skill 1 mapped twice, uncapped and capped, in both orders, and with another
\* skill's mapping in between
ReapplyShapes ==
    {<<Mapping(1, 1, NoLevel), Mapping(1, 1, 2)>>,
     <<Mapping(1, 1, 1), Mapping(1, 1, NoLevel)>>,
     <<Mapping(1, 1, 2), Mapping(2, 1, NoLevel), Mapping(1, 1, 1)>>}

InitReapply ==
    /\ levels = 1..NumLevels
    /\ lines = LadderRule
    /\ nextLineId = NumLevels + 1
    /\ lineOp = NoLineOp
    /\ resolved = NoResolved
    /\ config \in Configs
    /\ now = 1
    /\ ledger = {}
    /\ nextSkillId = 1
    /\ mappings \in ReapplyShapes
    /\ attempt = NoAttempt
    /\ ledgerOp = NoLedgerOp
    /\ txn = NoTxn
    /\ RoleUnused
    /\ RestUnused

\* rows are seeded by direct creates; any draft attempt, or the attempt last
\* applied, is applied
NextReapply ==
    \/ \E user \in ApplyUsers, vals \in SeedVals : Create(user, vals)
    \/ \E user \in ApplyUsers, att \in Attempts : ApplyResult(user, att)

SpecReapply == InitReapply /\ [][NextReapply]_vars

\* rule 1 turns the default buckets round: a score in [20(k-1), 20k-1] gets
\* the level of sequence NumLevels + 1 - k
ReversedRule ==
    {Line(k, 1, BucketWidth * (k - 1), BucketWidth * k - 1, NumLevels + 1 - k) :
        k \in 1..NumLevels}

\* a negative score, the first score of every bucket, and one above the rule
BucketAttemptScores == {0 - 1} \cup {BucketWidth * k : k \in 0..NumLevels}

BucketAttempts ==
    {DraftAttempt(e, sc) : e \in Employees, sc \in BucketAttemptScores}
        \cup (IF attempt.state = "none" THEN {} ELSE {attempt})

InitApply ==
    /\ levels = 1..NumLevels
    /\ lines = ReversedRule
    /\ nextLineId = NumLevels + 1
    /\ lineOp = NoLineOp
    /\ resolved = NoResolved
    /\ config \in Configs
    /\ now = 1
    /\ ledger = {}
    /\ nextSkillId = 1
    /\ mappings \in AssessmentShapes
    /\ attempt = NoAttempt
    /\ ledgerOp = NoLedgerOp
    /\ txn = NoTxn
    /\ RoleUnused
    /\ RestUnused

\* attempts of any score are applied, by a verifier and by another user
NextApply == \E user \in ApplyUsers, att \in BucketAttempts : ApplyResult(user, att)

SpecApply == InitApply /\ [][NextApply]_vars

\* direct edits of the ledger while the clock runs
InitUpsert ==
    /\ levels = 1..NumLevels
    /\ lines = {}
    /\ nextLineId = 1
    /\ lineOp = NoLineOp
    /\ resolved = NoResolved
    /\ config \in {c \in Configs : ~c.allow_assessment_downgrade}
    /\ now = 1
    /\ ledger = {}
    /\ nextSkillId = 1
    /\ mappings = <<>>
    /\ attempt = NoAttempt
    /\ ledgerOp = NoLedgerOp
    /\ txn = NoTxn
    /\ RoleUnused
    /\ RestUnused

NextUpsert ==
    \/ \E user \in Users, vals \in CreateVals : Create(user, vals)
    \/ \E user \in Users, old \in ledger, vals \in WriteVals : Write(user, old, vals)
    \/ Tick

SpecUpsert == InitUpsert /\ [][NextUpsert]_vars

\* res.config.settings is saved with cdm.enable_skill_expiry = b
set_enable_skill_expiry(b) ==
    /\ config' = [config EXCEPT !.enable_skill_expiry = b]
    /\ UNCHANGED <<now, ledger, nextSkillId, mappings, attempt, ledgerOp, txn>>
    /\ UNCHANGED OutsideLedger

\* rows with an expiry date of their own, or none
ExpiryDates == NoDate..MaxTime

ExpiryVals ==
    {[employee_id |-> e, skill_id |-> s, current_level_id |-> 1,
      expires_on |-> d] : e \in Employees, s \in Skills, d \in ExpiryDates}

ExpiryWriteVals ==
    {[expires_on |-> d] : d \in ExpiryDates} \cup {[current_level_id |-> 2]}

InitExpiry ==
    /\ levels = 1..NumLevels
    /\ lines = {}
    /\ nextLineId = 1
    /\ lineOp = NoLineOp
    /\ resolved = NoResolved
    /\ config = DefaultConfig
    /\ now = 1
    /\ ledger = {}
    /\ nextSkillId = 1
    /\ mappings = <<>>
    /\ attempt = NoAttempt
    /\ ledgerOp = NoLedgerOp
    /\ txn = NoTxn
    /\ RoleUnused
    /\ RestUnused

\* rows are created and written while the clock runs and the expiry switch
\* is turned off and on
NextExpiry ==
    \/ \E vals \in ExpiryVals : Create("employee", vals)
    \/ \E old \in ledger, vals \in ExpiryWriteVals : Write("employee", old, vals)
    \/ Tick
    \/ \E b \in BOOLEAN : set_enable_skill_expiry(b)

SpecExpiry == InitExpiry /\ [][NextExpiry]_vars

----------------------------------------------------------------------------
\* action_apply_result under concurrent transactions, for an assessment with
\* one mapping: the search reads the committed rows, the create or write
\* follows as a separate step and commits

ApplySearch(w, user, att) ==
    /\ txn[w].pc = "idle"
    /\ Len(mappings) = 1
    /\ LET m == mappings[1]
           awarded == Awarded(cdm_score_to_level(levels, lines, att.score,
                                                 m.scoring_rule_id), m.max_level_id)
       IN  txn' = [txn EXCEPT ![w] =
                      [pc |-> "searched", user |-> user, att |-> att,
                       awarded |-> awarded,
                       found |-> IF awarded = NoLevel THEN {}
                                 ELSE SearchSkill(ledger, att.employee_id, m.skill_id)]]
    /\ UNCHANGED <<config, now, ledger, nextSkillId, mappings, attempt, ledgerOp>>
    /\ UNCHANGED OutsideLedger

ApplyAct(w) ==
    /\ txn[w].pc = "searched"
    /\ LET t == txn[w]
           m == mappings[1]
           vals == [employee_id |-> t.att.employee_id,
                    skill_id |-> m.skill_id,
                    current_level_id |-> t.awarded,
                    source_type |-> "assessed",
                    verification_status |-> "verified",
                    expires_on |-> cdm_get_expiry_date(config, now)]
           skip == [ledger |-> ledger, nextId |-> nextSkillId, result |-> "ok"]
           out == IF t.awarded = NoLevel THEN skip
                  ELSE IF t.found = {}
                  THEN CreateRow(ledger, nextSkillId, config, now, t.user, vals)
                  ELSE LET old == CHOOSE r \in t.found : TRUE
                       IN  IF ~DowngradeAllows(config.allow_assessment_downgrade,
                                               t.awarded, old.current_level_id)
                           THEN skip
                           ELSE IF old \notin ledger
                           THEN [skip EXCEPT !.result = "SerializationFailure"]
                           ELSE WriteRow(ledger, nextSkillId, config, now,
                                         t.user, old, vals)
       IN  /\ ledgerOp' = [op |-> "apply", user |-> t.user,
                           verified |-> out # skip, result |-> out.result]
           /\ ledger' = out.ledger
           /\ nextSkillId' = out.nextId
           /\ attempt' = IF out.result = "ok"
                         THEN [t.att EXCEPT
                                 !.awarded_level_id =
                                    attempt_level(levels, lines, t.att),
                                 !.state = "done"]
                         ELSE t.att
    /\ txn' = [txn EXCEPT ![w] = IdleTxn]
    /\ UNCHANGED <<config, now, mappings>>
    /\ UNCHANGED OutsideLedger

ConcurrentVals ==
    {[employee_id |-> e, skill_id |-> s, current_level_id |-> 1] :
        e \in Employees, s \in Skills}

ConcurrentAttempts == {DraftAttempt(e, sc) : e \in Employees, sc \in {0, 1}}

InitConcurrent ==
    /\ levels = 1..NumLevels
    /\ lines = LadderRule
    /\ nextLineId = NumLevels + 1
    /\ lineOp = NoLineOp
    /\ resolved = NoResolved
    /\ config = DefaultConfig
    /\ now = 1
    /\ ledger = {}
    /\ nextSkillId = 1
    /\ mappings = <<Mapping(1, 1, NoLevel)>>
    /\ attempt = NoAttempt
    /\ ledgerOp = NoLedgerOp
    /\ txn = NoTxn
    /\ RoleUnused
    /\ RestUnused

NextConcurrent ==
    \/ \E vals \in ConcurrentVals : Create("manager", vals)
    \/ \E w \in Workers, att \in ConcurrentAttempts : ApplySearch(w, "manager", att)
    \/ \E w \in Workers : ApplyAct(w)

SpecConcurrent == InitConcurrent /\ [][NextConcurrent]_vars

----------------------------------------------------------------------------
\* hr.employee: role profile resolution and readiness

Jobs == {1, 2}
Departments == {1, 2}
TheEmployee == 1

Profile(id, job, dept, active, from, to) ==
    [id |-> id, job_id |-> job, department_id |-> dept, active |-> active,
     date_from |-> from, date_to |-> to]

\* the search domain of _compute_cdm_role_profile; the department clause is
\* added only when the employee has a department
ProfileDomain(rec, today, p) ==
    /\ p.job_id = rec.job_id
    /\ p.active
    /\ (p.date_from = NoDate \/ p.date_from <= today)
    /\ (p.date_to = NoDate \/ p.date_to >= today)
    /\ rec.department_id # NoDepartment =>
          (p.department_id = NoDepartment \/ p.department_id = rec.department_id)

\* search(domain, limit=1, order="id desc")
compute_cdm_role_profile(rec, today, all) ==
    LET found == {p \in all : ProfileDomain(rec, today, p)}
    IN  IF found = {} THEN NoProfile
        ELSE (CHOOSE p \in found : \A q \in found : q.id <= p.id).id

\* emp_skill.current_level_id.sequence >= line.target_level_id.sequence
TargetReached_Strict(current, target) == current > target

TargetReached(current, target) == current >= target

\* employee.cdm_skill_ids.filtered(lambda s: s.skill_id == line.skill_id)[:1]
FirstSkillRow(led, skill) ==
    LET found == {r \in led : r.employee_id = TheEmployee /\ r.skill_id = skill}
    IN  IF found = {} THEN {}
        ELSE {CHOOSE r \in found : \A o \in found : r.id <= o.id}

LineAchieved(led, line) ==
    \E r \in FirstSkillRow(led, line.skill_id) :
        TargetReached(r.current_level_id, line.target_level_id)

\* _compute_cdm_readiness for one employee; the score is the exact quotient
\* achieved * 100.0 / len(by_skill), kept as numerator and denominator
compute_cdm_readiness(rec, plines, led) ==
    LET required == {l \in plines : l.profile_id = rec.cdm_role_profile_id
                                    /\ l.is_required}
        by_skill == {l.skill_id : l \in required}
        achieved == Cardinality({l \in required : LineAchieved(led, l)})
        gaps == Cardinality({l \in required : ~LineAchieved(led, l)})
    IN  IF required = {}
        THEN [read |-> TRUE, score |-> [num |-> 0, den |-> 1], gap_count |-> 0]
        ELSE [read |-> TRUE,
              score |-> [num |-> achieved * 100, den |-> Cardinality(by_skill)],
              gap_count |-> gaps]

\* write({"job_id": job, "department_id": dept}) on the employee: the stored
\* cdm_role_profile_id is recomputed, and the readiness fields that depend on
\* it are dropped from the cache
WriteEmployee(job, dept) ==
    /\ LET rec == [employee EXCEPT !.job_id = job, !.department_id = dept]
       IN  employee' = [rec EXCEPT !.cdm_role_profile_id =
                                      compute_cdm_role_profile(rec, now, profiles)]
    /\ readiness' = NoReadiness
    /\ UNCHANGED <<now, ledger, profiles, profileLines>>
    /\ UNCHANGED OutsideRole

\* cdm_readiness_score and cdm_gap_count are read
ReadReadiness ==
    /\ readiness' = compute_cdm_readiness(employee, profileLines, ledger)
    /\ UNCHANGED <<now, ledger, employee, profiles, profileLines>>
    /\ UNCHANGED OutsideRole

\* the role profile is set by hand (the field is not readonly)
AssignRoleProfile(p) ==
    /\ employee' = [employee EXCEPT !.cdm_role_profile_id = p]
    /\ readiness' = NoReadiness
    /\ UNCHANGED <<now, ledger, profiles, profileLines>>
    /\ UNCHANGED OutsideRole

NoRoleOutside ==
    /\ levels = 1..NumLevels
    /\ lines = {}
    /\ nextLineId = 1
    /\ lineOp = NoLineOp
    /\ resolved = NoResolved
    /\ config = DefaultConfig
    /\ mappings = <<>>
    /\ attempt = NoAttempt
    /\ ledgerOp = NoLedgerOp
    /\ txn = NoTxn

\* date windows with date_to >= date_from where both are set (_check_dates)
Windows ==
    {w \in (0..MaxTime) \X (0..MaxTime) :
        w[1] = NoDate \/ w[2] = NoDate \/ w[2] >= w[1]}

\* profiles of either job and any department without a window, an archived
\* one, and windowed ones
ProfileShapes ==
    {<<j, d, TRUE, NoDate, NoDate>> : j \in Jobs, d \in Departments \cup {NoDepartment}}
        \cup {<<1, NoDepartment, FALSE, NoDate, NoDate>>}
        \cup {<<1, NoDepartment, TRUE, w[1], w[2]>> : w \in Windows}

InitRoleProfile ==
    /\ NoRoleOutside
    /\ RestUnused
    /\ now \in 1..MaxTime
    /\ ledger = {}
    /\ nextSkillId = 1
    /\ \E n \in 1..MaxProfiles : \E f \in [1..n -> ProfileShapes] :
          profiles = {Profile(i, f[i][1], f[i][2], f[i][3], f[i][4], f[i][5]) : i \in 1..n}
    /\ profileLines = {}
    /\ readiness = NoReadiness
    /\ employee = [job_id |-> NoJob, department_id |-> NoDepartment,
                   cdm_role_profile_id |-> NoProfile]

NextRoleProfile ==
    \E j \in Jobs \cup {NoJob}, d \in Departments \cup {NoDepartment} : WriteEmployee(j, d)

\* an employee is created without job and department: no profile has job_id
\* unset (the field is required), so none is resolved
SpecRoleProfile == InitRoleProfile /\ [][NextRoleProfile]_vars

ProfileLine(profile, skill, target, required) ==
    [profile_id |-> profile, skill_id |-> skill, target_level_id |-> target,
     is_required |-> required]

SkillRow(id, skill, lvl) ==
    [id |-> id, employee_id |-> TheEmployee, skill_id |-> skill,
     current_level_id |-> lvl, source_type |-> "self_declared",
     verification_status |-> "none", last_updated |-> 1, expires_on |-> NoDate,
     is_expired |-> FALSE]

\* one role profile with at most one line per skill (unique(profile_id,
\* skill_id)) and a ledger with at most one row per skill
InitReadiness ==
    /\ NoRoleOutside
    /\ RestUnused
    /\ now = 1
    /\ profiles = {Profile(1, 1, NoDepartment, TRUE, NoDate, NoDate)}
    /\ \E f \in [Skills -> {<<0, FALSE>>} \cup ((1..NumLevels) \X BOOLEAN)] :
          profileLines = {ProfileLine(1, s, f[s][1], f[s][2]) :
                             s \in {k \in Skills : f[k][1] # 0}}
    /\ \E g \in [Skills -> 0..NumLevels] :
          ledger = {SkillRow(s, s, g[s]) : s \in {k \in Skills : g[k] # 0}}
    /\ nextSkillId = Cardinality(Skills) + 1
    /\ employee = [job_id |-> 1, department_id |-> NoDepartment,
                   cdm_role_profile_id |-> 1]
    /\ readiness = NoReadiness

NextReadiness ==
    \/ ReadReadiness
    \/ \E p \in {NoProfile, 1} : AssignRoleProfile(p)

SpecReadiness == InitReadiness /\ [][NextReadiness]_vars

----------------------------------------------------------------------------
\* cron_skill_expiry_notifier

NoticeDays == 30     \* relativedelta(days=30)

\* the search domain: expires_on <= upcoming and expires_on != False
Expiring_Before(rec, today) ==
    rec.expires_on < today + NoticeDays /\ rec.expires_on # NoDate

Expiring(rec, today) ==
    rec.expires_on <= today + NoticeDays /\ rec.expires_on # NoDate

\* employee_id.user_id | employee_id.parent_id.user_id: a recordset without
\* duplicates, the employee's user first
target_users(acc) ==
    (IF acc.user_id # NoUser THEN <<acc.user_id>> ELSE <<>>)
        \o (IF acc.manager_user_id # NoUser /\ acc.manager_user_id # acc.user_id
            THEN <<acc.manager_user_id>> ELSE <<>>)

\* the activities of the loop over the records with ids i..n, in id order
RECURSIVE SweepActivities(_, _, _, _, _)
SweepActivities(led, acc, today, i, n) ==
    IF i > n THEN <<>>
    ELSE LET found == {r \in led : r.id = i /\ Expiring(r, today)}
             users == target_users(acc)
             mine == IF found = {} THEN <<>>
                     ELSE [k \in 1..Len(users) |->
                              [res_model |-> "cdm.employee.skill", res_id |-> i,
                               user_id |-> users[k]]]
         IN  mine \o SweepActivities(led, acc, today, i + 1, n)

\* the ledger rows after the sweep: it searches and schedules activities, and
\* writes no field of any row
Swept_Stamped(led, today) == {[r EXCEPT !.last_updated = today] : r \in led}

Swept(led, today) == led

cron_skill_expiry_notifier ==
    /\ scheduled' = SweepActivities(ledger, accounts, now, 1, nextSkillId - 1)
    /\ ledger' = Swept(ledger, now)
    /\ ledgerOp' = [op |-> "sweep", user |-> "none", verified |-> FALSE,
                    result |-> "ok"]
    /\ UNCHANGED <<config, now, nextSkillId, mappings, attempt, txn>>
    /\ UNCHANGED <<scoringVars, roleVars, importVars>>
    /\ UNCHANGED <<requests, nextRequestId, threshold, accounts, courseOp, steps>>

\* expiry dates around the notice horizon of every day of the run, and none
SweepDates ==
    {NoDate, 1} \cup {NoticeDays + k : k \in 0..(MaxTime + 1)}

\* the accounts of the employee and of the manager: absent, distinct, the same
SweepAccounts ==
    {[user_id |-> u, manager_user_id |-> m] :
        u \in {NoUser, "employee"}, m \in {NoUser, "employee", "manager"}}

\* a ledger with at most one row per skill, any day, any accounts
InitSweep ==
    /\ NoRoleOutside
    /\ RoleUnused
    /\ ImportUnused
    /\ RaceUnused
    /\ now \in 1..MaxTime
    /\ \E g \in [Skills -> SweepDates \cup {0 - 1}] :
          ledger = {[SkillRow(s, s, 1) EXCEPT !.expires_on = g[s]] :
                       s \in {k \in Skills : g[k] # 0 - 1}}
    /\ nextSkillId = Cardinality(Skills) + 1
    /\ requests = {}
    /\ nextRequestId = 1
    /\ threshold = 0
    /\ accounts \in SweepAccounts
    /\ courseOp = NoCourseOp
    /\ steps = {}
    /\ scheduled = <<>>

NextSweep == cron_skill_expiry_notifier

SpecSweep == InitSweep /\ [][NextSweep]_vars

----------------------------------------------------------------------------
\* cdm.course.request

MaxRequests == 2     \* cdm.course.request create calls that reach the store

MinJustification == 10   \* len(justification.strip()) < 10 raises

\* cdm.course records
Courses == {1, 2}

\* cdm.course.cost: course c costs c
CourseCost(course) == course

\* values of cdm.course_cost_hr_threshold: unset or 0, or one of the costs
Thresholds == {0} \cup {CourseCost(c) : c \in Courses}

\* a justification text: leading whitespace, the stripped text, trailing
\* whitespace, each by its length
Justifications ==
    {[lead |-> 0, body |-> 0, trail |-> 0],
     [lead |-> 1, body |-> MinJustification - 1, trail |-> 2],
     [lead |-> 0, body |-> MinJustification, trail |-> 0]}

\* _check_justification for one record: TRUE when it passes
check_justification(rec) ==
    ~(rec.justification.lead + rec.justification.body + rec.justification.trail = 0
      \/ rec.justification.body < MinJustification)

\* total_cost = related course_id.cost
total_cost(rec) == CourseCost(rec.course_id)

\* _hr_required: self.total_cost >= threshold > 0
hr_required_AnyThreshold(rec, t) == total_cost(rec) >= t

hr_required(rec, t) == total_cost(rec) >= t /\ t > 0

\* unique(employee_id, course_id, state)
RequestUniqueViolation_Unchecked(reqs, rec) == FALSE

RequestUniqueViolation(reqs, rec) ==
    \E r \in reqs : /\ r.id # rec.id
                    /\ r.employee_id = rec.employee_id
                    /\ r.course_id = rec.course_id
                    /\ r.state = rec.state

Request(id) == CHOOSE r \in requests : r.id = id

\* the store after rec replaced the record with its id, or the failure of the
\* UPDATE
StoreRequest(reqs, old, rec) ==
    LET written == (reqs \ {old}) \cup {rec}
    IN  IF RequestUniqueViolation(written, rec)
        THEN [requests |-> reqs, result |-> "IntegrityError"]
        ELSE [requests |-> written, result |-> "ok"]

\* create(vals_list) for one vals: state defaults to draft
CreateRequest(vals) ==
    /\ nextRequestId <= MaxRequests
    /\ LET rec == [id |-> nextRequestId,
                   employee_id |-> vals["employee_id"],
                   course_id |-> vals["course_id"],
                   justification |-> vals["justification"],
                   state |-> "draft",
                   approved_on |-> NoDate]
           result == IF RequestUniqueViolation(requests, rec) THEN "IntegrityError"
                     ELSE IF ~check_justification(rec) THEN "ValidationError"
                     ELSE "ok"
       IN  /\ requests' = IF result = "ok" THEN requests \cup {rec} ELSE requests
           /\ nextRequestId' = IF result = "ok" THEN nextRequestId + 1 ELSE nextRequestId
           /\ courseOp' = [op |-> "create", id |-> nextRequestId, from |-> "none",
                           result |-> result, sink |-> "none"]
    /\ scheduled' = <<>>
    /\ UNCHANGED <<threshold, accounts, steps>>
    /\ UNCHANGED <<scoringVars, ledgerVars, roleVars, importVars>>

\* rec.state = "manager_review"
Submitted_AsSubmitted(old) == [old EXCEPT !.state = "submitted"]

Submitted(old) == [old EXCEPT !.state = "manager_review"]

\* rec.state = "approved"; rec.approved_on = fields.Datetime.now()
Approved_Unstamped(old, t) == [old EXCEPT !.state = "approved"]

Approved(old, t) == [old EXCEPT !.state = "approved", !.approved_on = t]

\* what activity_schedule can do when it is called: create the activity, or
\* raise
Sinks == {"ok", "fails"}

\* the outcome of the call: nothing catches an exception of activity_schedule,
\* so it leaves action_submit and the transaction is rolled back
Dispatched(stored, sink) == IF sink = "fails" THEN "SinkError" ELSE "ok"

\* action_submit on one record: the state is set whatever it was, then the
\* manager's user gets a to-do activity
action_submit(id, sink) ==
    /\ \E r \in requests : r.id = id
    /\ LET old == Request(id)
           out == StoreRequest(requests, old, Submitted(old))
           called == out.result = "ok" /\ accounts.manager_user_id # NoUser
           result == IF called THEN Dispatched(out.result, sink) ELSE out.result
       IN  /\ requests' = IF result = "ok" THEN out.requests ELSE requests
           /\ scheduled' = IF called /\ sink = "ok"
                           THEN <<[res_model |-> "cdm.course.request", res_id |-> id,
                                   user_id |-> accounts.manager_user_id]>>
                           ELSE <<>>
           /\ courseOp' = [op |-> "submit", id |-> id, from |-> old.state,
                           result |-> result,
                           sink |-> IF called THEN sink ELSE "none"]
    /\ UNCHANGED <<nextRequestId, threshold, accounts, steps>>
    /\ UNCHANGED <<scoringVars, ledgerVars, roleVars, importVars>>

\* action_manager_approve on one record
action_manager_approve(id) ==
    /\ \E r \in requests : r.id = id
    /\ LET old == Request(id)
           rec == IF hr_required(old, threshold)
                  THEN [old EXCEPT !.state = "hr_review"]
                  ELSE Approved(old, now)
           out == StoreRequest(requests, old, rec)
       IN  /\ requests' = out.requests
           /\ courseOp' = [op |-> "manager_approve", id |-> id, from |-> old.state,
                           result |-> out.result, sink |-> "none"]
    /\ scheduled' = <<>>
    /\ UNCHANGED <<nextRequestId, threshold, accounts, steps>>
    /\ UNCHANGED <<scoringVars, ledgerVars, roleVars, importVars>>

\* action_hr_approve on one record
action_hr_approve(id) ==
    /\ \E r \in requests : r.id = id
    /\ LET old == Request(id)
           out == StoreRequest(requests, old, Approved(old, now))
       IN  /\ requests' = out.requests
           /\ courseOp' = [op |-> "hr_approve", id |-> id, from |-> old.state,
                           result |-> out.result, sink |-> "none"]
    /\ scheduled' = <<>>
    /\ UNCHANGED <<nextRequestId, threshold, accounts, steps>>
    /\ UNCHANGED <<scoringVars, ledgerVars, roleVars, importVars>>

\* action_reject on one record: write({"state": "rejected"})
action_reject(id) ==
    /\ \E r \in requests : r.id = id
    /\ LET old == Request(id)
           out == StoreRequest(requests, old, [old EXCEPT !.state = "rejected"])
       IN  /\ requests' = out.requests
           /\ courseOp' = [op |-> "reject", id |-> id, from |-> old.state,
                           result |-> out.result, sink |-> "none"]
    /\ scheduled' = <<>>
    /\ UNCHANGED <<nextRequestId, threshold, accounts, steps>>
    /\ UNCHANGED <<scoringVars, ledgerVars, roleVars, importVars>>

RequestVals ==
    {[employee_id |-> e, course_id |-> c, justification |-> j] :
        e \in Employees, c \in Courses, j \in Justifications}

ManagerUsers == {NoUser, "manager"}

\* no request yet; the threshold and the manager's account are fixed for the run
InitCourse ==
    /\ NoRoleOutside
    /\ now = 1
    /\ ledger = {}
    /\ nextSkillId = 1
    /\ RoleUnused
    /\ requests = {}
    /\ nextRequestId = 1
    /\ threshold \in Thresholds
    /\ \E m \in ManagerUsers : accounts = [user_id |-> "employee", manager_user_id |-> m]
    /\ courseOp = NoCourseOp
    /\ steps = {}
    /\ scheduled = <<>>
    /\ ImportUnused
    /\ RaceUnused

NextCourse ==
    \/ \E vals \in RequestVals : CreateRequest(vals)
    \/ \E id \in 1..MaxRequests, sink \in Sinks : action_submit(id, sink)
    \/ \E id \in 1..MaxRequests : action_manager_approve(id)
    \/ \E id \in 1..MaxRequests : action_hr_approve(id)
    \/ \E id \in 1..MaxRequests : action_reject(id)

SpecCourse == InitCourse /\ [][NextCourse]_vars

----------------------------------------------------------------------------
\* export_role_library_for_odoo.py
\*
\* A text is the sequence of its characters; the only whitespace character of
\* the sheets below is the blank.

MaxSheetRows == 2    \* data rows of the sheet
MaxRoleIdLen == 180  \* normalize_key(...)[:180]
None == 0            \* norm_level found no level

UpperCase == <<"A", "B", "C", "D", "E", "F", "G", "H", "I", "J", "K", "L", "M", "N", "O", "P", "Q", "R", "S", "T", "U", "V", "W", "X", "Y", "Z">>
LowerCase == <<"a", "b", "c", "d", "e", "f", "g", "h", "i", "j", "k", "l", "m", "n", "o", "p", "q", "r", "s", "t", "u", "v", "w", "x", "y", "z">>

\* the characters in code point order
Chars == <<" ", "(", ")", ":">> \o UpperCase \o LowerCase

Code(c) == CHOOSE i \in 1..Len(Chars) : Chars[i] = c

\* str.lower() for one character
LowerChar(c) ==
    IF \E i \in 1..Len(UpperCase) : UpperCase[i] = c
    THEN LowerCase[CHOOSE i \in 1..Len(UpperCase) : UpperCase[i] = c]
    ELSE c

lower(s) == [i \in 1..Len(s) |-> LowerChar(s[i])]

SetMin(S) == CHOOSE x \in S : \A y \in S : x <= y
SetMax(S) == CHOOSE x \in S : \A y \in S : y <= x

\* str.strip()
strip(s) ==
    LET inked == {i \in 1..Len(s) : s[i] # " "}
    IN  IF inked = {} THEN <<>> ELSE SubSeq(s, SetMin(inked), SetMax(inked))

\* re.sub(r"\s+", " ", s): a run of blanks becomes one blank
RECURSIVE collapse(_)
collapse(s) ==
    IF Len(s) <= 1 THEN s
    ELSE IF s[1] = " " /\ s[2] = " " THEN collapse(Tail(s))
    ELSE <<s[1]>> \o collapse(Tail(s))

normalize_skill_name(name) == collapse(strip(name))

normalize_key(s) == lower(normalize_skill_name(s))

\* LEVEL_MAP.get(text)
LEVEL_MAP(text) ==
    IF text = <<"b", "e", "g", "i", "n", "n", "e", "r">> THEN 1
    ELSE IF text = <<"i", "n", "t", "e", "r", "m", "e", "d", "i", "a", "t", "e">> THEN 2
    ELSE IF text = <<"a", "d", "v", "a", "n", "c", "e", "d">> THEN 3
    ELSE IF text = <<"e", "x", "p", "e", "r", "t">> THEN 4
    ELSE None

norm_level(level_raw) ==
    IF level_raw = <<>> THEN None ELSE LEVEL_MAP(lower(strip(level_raw)))

safe_str(v) == strip(v)

\* a < b for two texts, as Python compares str
RECURSIVE TextLess(_, _)
TextLess(a, b) ==
    IF b = <<>> THEN FALSE
    ELSE IF a = <<>> THEN TRUE
    ELSE IF a[1] # b[1] THEN Code(a[1]) < Code(b[1])
    ELSE TextLess(Tail(a), Tail(b))

\* read_sheet_as_dicts: every cell stripped, rows without any value dropped
StripRow(r) ==
    [role_id |-> strip(r.role_id), role_title |-> strip(r.role_title),
     career_level |-> strip(r.career_level),
     hard_skill |-> strip(r.hard_skill), hard_level |-> strip(r.hard_level),
     soft_skill |-> strip(r.soft_skill), soft_level |-> strip(r.soft_level)]

IsBlankRow(r) ==
    /\ r.role_id = <<>> /\ r.role_title = <<>> /\ r.career_level = <<>>
    /\ r.hard_skill = <<>> /\ r.hard_level = <<>>
    /\ r.soft_skill = <<>> /\ r.soft_level = <<>>

read_sheet_as_dicts(rows) ==
    SelectSeq([i \in 1..Len(rows) |-> StripRow(rows[i])], LAMBDA r : ~IsBlankRow(r))

Truncate(s, n) == IF Len(s) <= n THEN s ELSE SubSeq(s, 1, n)

\* Role ID, or the key of "title::career_level" cut to 180 characters, or the
\* key of the title
external_role_id_of(row) ==
    LET given == safe_str(row.role_id)
        title == safe_str(row.role_title)
        composed == Truncate(normalize_key(title \o <<":", ":">> \o safe_str(row.career_level)),
                             MaxRoleIdLen)
    IN  IF given # <<>> THEN given
        ELSE IF composed # <<>> THEN composed
        ELSE Truncate(normalize_key(title), MaxRoleIdLen)

\* the RoleProfileLineRow of one (skill, level) pair of a row, when it has one
CellLines(role, skill_raw, level_raw, skill_type) ==
    LET skill_name == normalize_skill_name(safe_str(skill_raw))
        level_seq == norm_level(level_raw)
    IN  IF safe_str(skill_raw) = <<>> \/ skill_name = <<>> \/ level_seq = None
        THEN <<>>
        ELSE <<[external_role_id |-> role,
                external_skill_key |-> normalize_key(skill_name),
                skill_name |-> skill_name,
                skill_type |-> skill_type,
                target_level_seq |-> level_seq,
                is_required |-> TRUE]>>

\* role_lines of the loop over the records i..Len(records): rows without a
\* role title are passed over, hard pairs come before soft pairs
RECURSIVE RoleLines(_, _)
RoleLines(records, i) ==
    IF i > Len(records) THEN <<>>
    ELSE LET row == records[i]
             role == external_role_id_of(row)
             mine == IF safe_str(row.role_title) = <<>> THEN <<>>
                     ELSE CellLines(role, row.hard_skill, row.hard_level, "hard")
                            \o CellLines(role, row.soft_skill, row.soft_level, "soft")
         IN  mine \o RoleLines(records, i + 1)

SameKey(a, b) ==
    /\ a.external_role_id = b.external_role_id
    /\ a.external_skill_key = b.external_skill_key

\* dedup: per key the first line of the highest target_level_seq, at the
\* place of the key's first line
KeptAt_LastSeen(ls, i) ==
    LET same == {j \in 1..Len(ls) : SameKey(ls[j], ls[i])}
    IN  ls[SetMax(same)]

KeptAt(ls, i) ==
    LET same == {j \in 1..Len(ls) : SameKey(ls[j], ls[i])}
        top == SetMax({ls[j].target_level_seq : j \in same})
    IN  ls[SetMin({j \in same : ls[j].target_level_seq = top})]

RECURSIVE Dedup(_, _)
Dedup(ls, i) ==
    IF i > Len(ls) THEN <<>>
    ELSE (IF \E j \in 1..(i - 1) : SameKey(ls[j], ls[i])
          THEN <<>> ELSE <<KeptAt(ls, i)>>) \o Dedup(ls, i + 1)

\* the sort key (external_role_id, skill_type, skill_name.lower()) of a is
\* smaller than that of b
LineBefore(a, b) ==
    IF a.external_role_id # b.external_role_id
    THEN TextLess(a.external_role_id, b.external_role_id)
    ELSE IF a.skill_type # b.skill_type
    THEN a.skill_type = "hard"
    ELSE TextLess(lower(a.skill_name), lower(b.skill_name))

\* sorted(): stable, by insertion from the left
RECURSIVE Insert(_, _)
Insert(sorted, l) ==
    IF sorted = <<>> THEN <<l>>
    ELSE IF LineBefore(l, sorted[Len(sorted)])
    THEN Insert(SubSeq(sorted, 1, Len(sorted) - 1), l) \o <<sorted[Len(sorted)]>>
    ELSE sorted \o <<l>>

RECURSIVE SortLines(_, _)
SortLines(ls, n) ==
    IF n = 0 THEN <<>> ELSE Insert(SortLines(ls, n - 1), ls[n])

\* export_role_library: the rows written to role_profile_lines.csv, or the
\* ValueError of a sheet without data rows
export_role_library ==
    /\ LET records == read_sheet_as_dicts(sheet)
           role_lines == Dedup(RoleLines(records, 1), 1)
       IN  exported' =
              IF records = <<>>
              THEN [ran |-> TRUE, result |-> "ValueError", lines |-> <<>>]
              ELSE [ran |-> TRUE, result |-> "ok",
                    lines |-> SortLines(role_lines, Len(role_lines))]
    /\ UNCHANGED sheet
    /\ UNCHANGED <<scoringVars, ledgerVars, roleVars, courseVars>>

SheetRow(role, hard, soft) ==
    [role_id |-> role[1], role_title |-> role[2], career_level |-> role[3],
     hard_skill |-> hard[1], hard_level |-> hard[2],
     soft_skill |-> soft[1], soft_level |-> soft[2]]

\* role columns: an id; no id, twice the same title and level written
\* differently
RoleShapes ==
    {<<<<"R">>, <<"D", "e", "v">>, <<>>>>,
     <<<<>>, <<"D", "e", "v">>, <<"S", "r">>>>,
     <<<<>>, <<" ", "D", "E", "V">>, <<"s", "r", " ">>>>}

\* a (skill, level) pair of the hard columns: one skill written two ways with
\* two levels, the same skill with an unknown level, another skill
HardShapes ==
    {<<<<"A", " ", "b">>, <<"B", "e", "g", "i", "n", "n", "e", "r">>>>,
     <<<<" ", "a", " ", " ", "B", " ">>, <<"E", "X", "P", "E", "R", "T", " ">>>>,
     <<<<"A", " ", "b">>, <<"g", "u", "r", "u">>>>,
     <<<<"C">>, <<"a", "d", "v", "a", "n", "c", "e", "d">>>>}

\* of the soft columns: the first skill again with a third level, or nothing
SoftShapes ==
    {<<<<"a", " ", "b">>, <<"I", "n", "t", "e", "r", "m", "e", "d", "i", "a", "t", "e">>>>,
     <<<<>>, <<>>>>}

InitImport ==
    /\ NoRoleOutside
    /\ now = 1
    /\ ledger = {}
    /\ nextSkillId = 1
    /\ RoleUnused
    /\ CourseUnused
    /\ RaceUnused
    /\ \E n \in 1..MaxSheetRows :
          sheet \in [1..n -> {SheetRow(r, h, s) :
                                 r \in RoleShapes, h \in HardShapes, s \in SoftShapes}]
    /\ exported = NoExport

NextImport == export_role_library

SpecImport == InitImport /\ [][NextImport]_vars

----------------------------------------------------------------------------
\* Properties of the resolver and of the scoring rule lines

Contains(l, score) == l.min_score <= score /\ score <= l.max_score

Disjoint(a, b) == a.max_score < b.min_score \/ b.max_score < a.min_score

\* C1: with a rule supplied, a score that lies in no line's [min_score,
\* max_score] interval of that rule resolves to no level, whatever proficiency
\* levels exist.
C1_UncoveredScoreGivesNone ==
    (/\ resolved.called
     /\ resolved.rule # NoRule
     /\ \A l \in RuleLines(lines, resolved.rule) : ~Contains(l, resolved.score))
    => resolved.level = NoLevel

\* C2: with a rule whose lines do not overlap, a score inside a line's closed
\* interval resolves to exactly that line's level, both bounds inclusive.
C2_CoveredScoreGivesLineLevel ==
    (resolved.called /\ resolved.rule # NoRule)
    => \A l \in RuleLines(lines, resolved.rule) :
          Contains(l, resolved.score) => resolved.level = l.level_id

\* a score on the upper bound of one line, right below the lower bound of the
\* next, resolved to the first line's level
C2_Witness ==
    /\ resolved.called
    /\ resolved.rule # NoRule
    /\ \E a, b \in RuleLines(lines, resolved.rule) :
          /\ a.min_score < a.max_score
          /\ a.max_score = resolved.score
          /\ b.min_score = resolved.score + 1
          /\ a.level_id # b.level_id
          /\ resolved.level = a.level_id

\* C3: without a rule the result is the level of highest sequence among the
\* levels whose sequence is at most floor(score/20)+1, none when there is no
\* such level; with sequences 1..5: 0 -> 1, 19 -> 1, 20 -> 2, 99 -> 5.
C3_DefaultBucket ==
    (resolved.called /\ resolved.rule = NoRule)
    => LET qualifying == {l \in levels : 20 * (l - 1) <= resolved.score}
       IN  /\ qualifying = {} => resolved.level = NoLevel
           /\ qualifying # {} =>
                 /\ resolved.level \in qualifying
                 /\ \A l \in qualifying : l <= resolved.level
           /\ levels = 1..5 =>
                 /\ resolved.score = 0 => resolved.level = 1
                 /\ resolved.score = 19 => resolved.level = 1
                 /\ resolved.score = 20 => resolved.level = 2
                 /\ resolved.score = 99 => resolved.level = 5

C3_Witness ==
    /\ resolved.called
    /\ resolved.rule = NoRule
    /\ levels = 1..5
    /\ resolved.score = 99
    /\ resolved.level = 5

\* C4: every stored scoring rule line has max_score >= min_score and no two
\* lines of the same rule intersect; a create or write that is rejected with
\* ValidationError leaves the stored lines unchanged.
C4_RangesValid ==
    /\ [](/\ \A l \in lines : l.max_score >= l.min_score
          /\ \A a, b \in lines :
                (a.id # b.id /\ a.rule_id = b.rule_id) => Disjoint(a, b))
    /\ [][lineOp'.result = "ValidationError" => lines' = lines]_vars

\* adjacent ranges of one rule are stored, and a later write was rejected
C4_Witness ==
    /\ \E a, b \in lines :
          /\ a.rule_id = b.rule_id
          /\ b.min_score = a.max_score + 1
    /\ lineOp.result = "ValidationError"

----------------------------------------------------------------------------
\* Properties of the skill ledger and of assessment application

Privileged(user) ==
    has_group(user, "group_cdm_manager") \/ has_group(user, "group_cdm_hr_admin")

MappingsFor(skill) == {i \in 1..Len(mappings) : mappings[i].skill_id = skill}

\* the level mapping i awards for a score, after its cap
AwardOf(i, score) ==
    Awarded(cdm_score_to_level(levels, lines, score, mappings[i].scoring_rule_id),
            mappings[i].max_level_id)

Overwritten(row, award) ==
    /\ row.current_level_id = award
    /\ row.source_type = "assessed"
    /\ row.verification_status = "verified"

\* the step applies attempt' to a ledger holding row r, which mapping i alone
\* targets with a non-empty award
AppliesTo(r, i) ==
    /\ ledgerOp'.op = "apply"
    /\ r \in ledger
    /\ r.employee_id = attempt'.employee_id
    /\ MappingsFor(r.skill_id) = {i}
    /\ AwardOf(i, attempt'.score) # NoLevel

RowAfter(r) == CHOOSE x \in ledger' : x.id = r.id

PolicyAllows(r, i) ==
    \/ config.allow_assessment_downgrade
    \/ AwardOf(i, attempt'.score) >= r.current_level_id

\* C5: when a ledger row exists for (employee, skill), action_apply_result
\* overwrites it iff downgrades are allowed or the awarded sequence is at least
\* the existing one; with downgrades off the row's sequence never decreases.
C5_DowngradePolicy ==
    [][\A r \in ledger : \A i \in MappingsFor(r.skill_id) :
          AppliesTo(r, i) =>
             /\ PolicyAllows(r, i) =>
                   Overwritten(RowAfter(r), AwardOf(i, attempt'.score))
             /\ ~PolicyAllows(r, i) => RowAfter(r) = r
             /\ ~config.allow_assessment_downgrade =>
                   RowAfter(r).current_level_id >= r.current_level_id]_vars

\* C5 as amended: the same for a user holding the Manager or HR-Admin
\* capability; for a user holding neither, an overwrite the policy allows
\* raises and the call leaves the ledger as it was.
C5_DowngradePolicyForVerifier ==
    [][\A r \in ledger : \A i \in MappingsFor(r.skill_id) :
          AppliesTo(r, i) =>
             /\ (Privileged(ledgerOp'.user) /\ PolicyAllows(r, i)) =>
                   /\ ledgerOp'.result = "ok"
                   /\ Overwritten(RowAfter(r), AwardOf(i, attempt'.score))
             /\ (~Privileged(ledgerOp'.user) /\ PolicyAllows(r, i)) =>
                   /\ ledgerOp'.result # "ok"
                   /\ ledger' = ledger
             /\ ~PolicyAllows(r, i) => RowAfter(r) = r
             /\ ~config.allow_assessment_downgrade =>
                   RowAfter(r).current_level_id >= r.current_level_id]_vars

\* a manager's apply with downgrades off kept a self-declared row above the
\* award and wrote the award into the row of another skill
C5_Witness ==
    /\ ledgerOp.op = "apply"
    /\ Privileged(ledgerOp.user)
    /\ ledgerOp.result = "ok"
    /\ attempt.state = "done"
    /\ ~config.allow_assessment_downgrade
    /\ \E kept, written \in ledger : \E i, j \in 1..Len(mappings) :
          /\ MappingsFor(kept.skill_id) = {i}
          /\ MappingsFor(written.skill_id) = {j}
          /\ kept.source_type = "self_declared"
          /\ AwardOf(i, attempt.score) # NoLevel
          /\ kept.current_level_id > AwardOf(i, attempt.score)
          /\ Overwritten(written, AwardOf(j, attempt.score))

\* C6: a second upsert with the arguments of the first leaves the row as the
\* first left it: no second row, and last_updated is restamped only when
\* current_level_id changes value.
C6_IdenticalUpsertKeepsStamp ==
    [][/\ \A r \in ledger : \A x \in ledger' :
             (x.id = r.id /\ x.current_level_id = r.current_level_id)
                => x.last_updated = r.last_updated
       /\ \A x, y \in ledger' :
             (x.employee_id = y.employee_id /\ x.skill_id = y.skill_id) => x = y]_vars

\* C8: an operation that sets verification_status = verified for a user who is
\* neither manager nor HR admin fails and changes nothing, create as well as
\* write.
C8_OnlyVerifiersVerify ==
    (ledgerOp.verified /\ ~Privileged(ledgerOp.user)) => ledgerOp.result # "ok"

\* C7: there is at most one cdm.employee.skill row per (employee, skill) under
\* any interleaving of direct creates and action_apply_result transactions.
C7_OneRowPerEmployeeSkill ==
    \A x, y \in ledger :
        (x.employee_id = y.employee_id /\ x.skill_id = y.skill_id) => x = y

\* two transactions found no row for the pair; one created it, the other's
\* create was refused by the store
C7_Witness ==
    /\ ledgerOp.op = "apply"
    /\ ledgerOp.result = "IntegrityError"
    /\ \E r \in ledger : r.skill_id = mappings[1].skill_id /\ r.source_type = "assessed"

----------------------------------------------------------------------------
\* Properties of role profile resolution and readiness

\* C9: with R the required lines of the employee's role profile and achieved
\* the number of them whose skill has a ledger row at or above the target,
\* readiness = 100 * achieved / |R| and gaps = |R| - achieved, both 0 when R is
\* empty; so 0 <= readiness <= 100 and achieved + gaps = |R|.
C9_Readiness ==
    readiness.read =>
        LET R == {l \in profileLines : l.profile_id = employee.cdm_role_profile_id
                                       /\ l.is_required}
            achieved == Cardinality({l \in R : \E r \in ledger :
                            /\ r.employee_id = TheEmployee
                            /\ r.skill_id = l.skill_id
                            /\ r.current_level_id >= l.target_level_id})
            n == Cardinality(R)
        IN  /\ R = {} => (readiness.score.num = 0 /\ readiness.gap_count = 0)
            /\ R # {} =>
                  /\ readiness.score.num * n = 100 * achieved * readiness.score.den
                  /\ readiness.gap_count = n - achieved
            /\ readiness.score.den > 0
            /\ 0 <= readiness.score.num
            /\ readiness.score.num <= 100 * readiness.score.den
            /\ (/\ {<<l.skill_id, l.target_level_id>> : l \in R} = {<<1, 2>>, <<2, 3>>}
                /\ {<<r.skill_id, r.current_level_id>> : r \in ledger} = {<<1, 2>>, <<2, 1>>})
                  => /\ readiness.score.num * 2 = 100 * readiness.score.den
                     /\ readiness.gap_count = 1

\* required {skill 1 -> L2, skill 2 -> L3}, ledger {1: L2, 2: L1}: 50 and 1
C9_Witness ==
    /\ readiness.read
    /\ employee.cdm_role_profile_id = 1
    /\ profileLines = {ProfileLine(1, 1, 2, TRUE), ProfileLine(1, 2, 3, TRUE)}
    /\ {<<r.skill_id, r.current_level_id>> : r \in ledger} = {<<1, 2>>, <<2, 1>>}
    /\ readiness.score = [num |-> 100, den |-> 2]
    /\ readiness.gap_count = 1

\* C10: the resolved role profile is the highest-id profile among the active
\* ones of the employee's job whose department is unset or equals the
\* employee's and whose date window contains today; none when none qualifies.
C10_RoleProfileResolution ==
    LET qualifying ==
            {p \in profiles :
                /\ p.active
                /\ p.job_id = employee.job_id
                /\ (p.department_id = NoDepartment
                       \/ p.department_id = employee.department_id)
                /\ (p.date_from = NoDate \/ p.date_from <= now)
                /\ (p.date_to = NoDate \/ now <= p.date_to)}
    IN  /\ qualifying = {} => employee.cdm_role_profile_id = NoProfile
        /\ qualifying # {} =>
              /\ employee.cdm_role_profile_id \in {p.id : p \in qualifying}
              /\ \A p \in qualifying : p.id <= employee.cdm_role_profile_id

----------------------------------------------------------------------------
\* Properties of the course request workflow

RequestIn(reqs, id) == CHOOSE r \in reqs : r.id = id

HasRequest(reqs, id) == \E r \in reqs : r.id = id

\* the last operation was op, on a stored request, and it went through
Did(op, opRec) == opRec.op = op /\ opRec.result = "ok"

\* C11: with the threshold T fixed for the run, a manager approval that goes
\* through leaves the request in hr_review exactly when its total cost >= T and
\* T > 0, and in approved otherwise; a request with total cost >= T > 0 enters
\* approved only in a step that is an HR approval of that request; with T = 0
\* no manager approval leaves a request in hr_review.
C11_Routing ==
    /\ Did("manager_approve", courseOp') =>
          LET before == RequestIn(requests, courseOp'.id)
              after == RequestIn(requests', courseOp'.id)
          IN  /\ (CourseCost(before.course_id) >= threshold /\ threshold > 0)
                    <=> after.state = "hr_review"
              /\ ~(CourseCost(before.course_id) >= threshold /\ threshold > 0)
                    <=> after.state = "approved"
              /\ threshold = 0 => after.state # "hr_review"
    /\ \A r \in requests' :
          (/\ r.state = "approved"
           /\ CourseCost(r.course_id) >= threshold /\ threshold > 0
           /\ ~(HasRequest(requests, r.id) /\ RequestIn(requests, r.id).state = "approved"))
          => Did("hr_approve", courseOp') /\ courseOp'.id = r.id
    /\ threshold' = threshold

WorkflowEdges ==
    {<<"draft", "manager_review">>, <<"manager_review", "hr_review">>,
     <<"manager_review", "approved">>, <<"hr_review", "approved">>}
        \cup {<<st, "rejected">> :
                 st \in {"draft", "manager_review", "hr_review", "approved"}}

\* C12: every change of a request's state is an edge of the workflow graph:
\* submit acts only on draft, a manager approval only on manager_review, an HR
\* approval only on hr_review, so approved is entered from manager_review or
\* hr_review only.
C12_FollowsStateGraph ==
    [][\A r \in requests :
          HasRequest(requests', r.id) =>
              LET after == RequestIn(requests', r.id).state
              IN  after = r.state \/ <<r.state, after>> \in WorkflowEdges]_vars

\* C13: a request in rejected stays in rejected under every operation.
C13_RejectedIsTerminal ==
    [][\A r \in requests :
          r.state = "rejected" /\ HasRequest(requests', r.id)
              => RequestIn(requests', r.id).state = "rejected"]_vars

\* C14: reject on any stored request, whatever the other requests are, goes
\* through and leaves the request in rejected.
C14_RejectAlwaysSucceeds ==
    courseOp.op = "reject" =>
        /\ courseOp.result = "ok"
        /\ RequestIn(requests, courseOp.id).state = "rejected"

NoDuplicateRequest ==
    \A a, b \in requests :
        (/\ a.employee_id = b.employee_id
         /\ a.course_id = b.course_id
         /\ a.state = b.state) => a.id = b.id

DraftSibling(vals) ==
    \E r \in requests : /\ r.employee_id = vals["employee_id"]
                        /\ r.course_id = vals["course_id"]
                        /\ r.state = "draft"

C15_Step ==
    /\ courseOp'.result # "ok" => requests' = requests
    /\ \A vals \in RequestVals :
          (CreateRequest(vals) /\ vals["justification"].body >= MinJustification)
              => (courseOp'.result = "ok" <=> ~DraftSibling(vals))

\* C15: no two requests of the same (employee, course) are in the same state;
\* a create or transition that would make two fails and leaves every request
\* as it was; a create with a valid justification goes through exactly when no
\* request of that (employee, course) is in draft.
C15_UniquePerState == [](NoDuplicateRequest) /\ [][C15_Step]_vars

\* a second request of an (employee, course) was created after the first one
\* was rejected, and a transition of it into the first one's state was refused
C15_Witness ==
    \E a, b \in requests :
        /\ a.id < b.id
        /\ a.employee_id = b.employee_id
        /\ a.course_id = b.course_id
        /\ a.state = "rejected"
        /\ b.state = "draft"
        /\ courseOp = [op |-> "reject", id |-> b.id, from |-> "draft",
                       result |-> "IntegrityError", sink |-> "none"]

Decisions == {"manager_approve", "hr_approve", "reject"}

\* C16: every manager approval, HR approval or rejection that goes through
\* adds exactly one approval step, of that request, and removes or changes
\* none.
C16_OneStepPerDecision ==
    [][(courseOp'.op \in Decisions /\ courseOp'.result = "ok") =>
          /\ steps \subseteq steps'
          /\ Cardinality(steps' \ steps) = 1
          /\ \A st \in steps' \ steps : st.request_id = courseOp'.id]_vars

----------------------------------------------------------------------------
\* Properties of skill expiry

\* C17: the is_expired flag of every ledger row is false when expiry is
\* switched off or the row has no expires_on, and otherwise says whether
\* expires_on < today, also after the date advanced or the switch was turned
\* without the row being written.
C17_IsExpiredFollowsDate ==
    \A r \in ledger :
        r.is_expired = (IF ~config.enable_skill_expiry \/ r.expires_on = NoDate
                        THEN FALSE
                        ELSE r.expires_on < now)

----------------------------------------------------------------------------
\* Properties of the attempt's own result

\* C18: after action_apply_result went through, the attempt is done and its
\* awarded level is the level of highest sequence among the levels whose
\* sequence is at most floor(score/20)+1 (none when there is no such level),
\* whatever the mappings' scoring rules and caps awarded per skill.
C18_AttemptGetsBucketLevel ==
    (ledgerOp.op = "apply" /\ ledgerOp.result = "ok")
    => LET qualifying == {l \in levels : 20 * (l - 1) <= attempt.score}
       IN  /\ attempt.state = "done"
           /\ qualifying = {} => attempt.awarded_level_id = NoLevel
           /\ qualifying # {} =>
                 /\ attempt.awarded_level_id \in qualifying
                 /\ \A l \in qualifying : l <= attempt.awarded_level_id

\* an applied attempt whose own level is not the one its rule put into the
\* ledger in the same call
C18_Witness ==
    /\ ledgerOp.op = "apply"
    /\ ledgerOp.result = "ok"
    /\ ledgerOp.verified
    /\ attempt.state = "done"
    /\ attempt.awarded_level_id # NoLevel
    /\ \E r \in ledger :
          /\ r.source_type = "assessed"
          /\ r.current_level_id #
                cdm_score_to_level(levels, lines, attempt.score, NoRule)
          /\ r.current_level_id =
                cdm_score_to_level(levels, lines, attempt.score, 1)

----------------------------------------------------------------------------
\* Properties of the expiry sweep

\* number of activities of the last operation for a ledger row and a user
Notified(id, user) ==
    Cardinality({k \in 1..Len(scheduled) :
                    /\ scheduled[k].res_model = "cdm.employee.skill"
                    /\ scheduled[k].res_id = id
                    /\ scheduled[k].user_id = user})

----------------------------------------------------------------------------
\* Properties of the role library export

KnownLevels ==
    {<<"b", "e", "g", "i", "n", "n", "e", "r">>,
     <<"i", "n", "t", "e", "r", "m", "e", "d", "i", "a", "t", "e">>,
     <<"a", "d", "v", "a", "n", "c", "e", "d">>,
     <<"e", "x", "p", "e", "r", "t">>}

\* the level text of a cell is one of the four names, whatever its case and
\* the blanks around it
Recognized(level_raw) == lower(strip(level_raw)) \in KnownLevels

\* the (skill, level) cells of the sheet that name a skill, in rows that have
\* a role title
SkillCells ==
    {c \in UNION {{[row |-> i, role |-> external_role_id_of(sheet[i]),
                    skill |-> sheet[i].hard_skill, level |-> sheet[i].hard_level],
                   [row |-> i, role |-> external_role_id_of(sheet[i]),
                    skill |-> sheet[i].soft_skill, level |-> sheet[i].soft_level]} :
                     i \in 1..Len(sheet)} :
        strip(sheet[c.row].role_title) # <<>> /\ strip(c.skill) # <<>>}

CellsOf(role, key) ==
    {c \in SkillCells :
        Recognized(c.level) /\ c.role = role /\ normalize_key(c.skill) = key}

\* C20: in the exported role profile lines no (external_role_id,
\* external_skill_key) pair occurs twice; a pair has a line exactly when some
\* cell of it has a recognized level, and the line carries the highest level
\* of those cells; so a cell with an unrecognized level adds no line and the
\* other cells of its row keep theirs.
C20_OneLinePerPairWithMaxLevel ==
    (exported.ran /\ exported.result = "ok") =>
        LET out == exported.lines
        IN  /\ \A i, j \in 1..Len(out) : SameKey(out[i], out[j]) => i = j
            /\ \A i \in 1..Len(out) :
                  LET cells == CellsOf(out[i].external_role_id, out[i].external_skill_key)
                  IN  /\ cells # {}
                      /\ \E c \in cells : LEVEL_MAP(lower(strip(c.level))) = out[i].target_level_seq
                      /\ \A c \in cells : LEVEL_MAP(lower(strip(c.level))) <= out[i].target_level_seq
            /\ \A c \in SkillCells :
                  Recognized(c.level) =>
                      \E i \in 1..Len(out) :
                          /\ out[i].external_role_id = c.role
                          /\ out[i].external_skill_key = normalize_key(c.skill)

\* an export in which a pair had cells of two levels and got the higher one,
\* and a row had a cell with an unrecognized level next to a recognized one
C20_Witness ==
    /\ exported.ran
    /\ exported.result = "ok"
    /\ \E i \in 1..Len(exported.lines) :
          /\ exported.lines[i].target_level_seq = 4
          /\ \E c \in CellsOf(exported.lines[i].external_role_id,
                              exported.lines[i].external_skill_key) :
                LEVEL_MAP(lower(strip(c.level))) = 2
    /\ \E c, e \in SkillCells :
          /\ c.row = e.row
          /\ ~Recognized(c.level)
          /\ c.level # <<>>
          /\ Recognized(e.level)

----------------------------------------------------------------------------
\* Properties of the caps and of empty awards

\* the rows of an employee's skill in a ledger
RowsOf(led, emp, skill) == {r \in led : r.employee_id = emp /\ r.skill_id = skill}

\* what the mapping's rule gives for the score, before any cap
RawAward(i, score) ==
    cdm_score_to_level(levels, lines, score, mappings[i].scoring_rule_id)

C21_Step ==
    ledgerOp'.op = "apply" =>
        /\ \A i \in 1..Len(mappings) :
              LET m == mappings[i]
                  before == RowsOf(ledger, attempt'.employee_id, m.skill_id)
                  after == RowsOf(ledger', attempt'.employee_id, m.skill_id)
              IN  MappingsFor(m.skill_id) = {i} =>
                     /\ m.max_level_id # NoLevel =>
                           \A x \in after \ before :
                               x.current_level_id <= m.max_level_id
                     /\ RawAward(i, attempt'.score) = NoLevel => after = before
        /\ (\A i \in 1..Len(mappings) : RawAward(i, attempt'.score) = NoLevel) =>
              /\ ledgerOp'.result = "ok"
              /\ ledger' = ledger

\* C21: in action_apply_result a mapping with a cap creates or changes a
\* ledger row only to a level of sequence at most the cap's, and a mapping
\* whose award is none creates and changes no row and raises nothing.
C21_CapAndEmptyAward == [][C21_Step]_vars

\* an apply wrote the cap into the ledger for a score whose rule level lies
\* above the cap
C21_Witness ==
    /\ ledgerOp.op = "apply"
    /\ ledgerOp.result = "ok"
    /\ \E i \in 1..Len(mappings) :
          /\ mappings[i].max_level_id # NoLevel
          /\ RawAward(i, attempt.score) > mappings[i].max_level_id
          /\ \E r \in RowsOf(ledger, attempt.employee_id, mappings[i].skill_id) :
                /\ r.current_level_id = mappings[i].max_level_id
                /\ r.source_type = "assessed"

----------------------------------------------------------------------------
\* Properties of a failing apply

\* C22: when action_apply_result raises, the attempt is as it was before the
\* call (a draft attempt stays draft without awarded level) and the ledger is
\* the one before the call: writes made for earlier mappings are not kept.
C22_RaiseRollsBack ==
    [][(ledgerOp'.op = "apply" /\ ledgerOp'.result # "ok") =>
          /\ ledger' = ledger
          /\ nextSkillId' = nextSkillId
          /\ \/ attempt' = attempt
             \/ attempt'.state = "draft" /\ attempt'.awarded_level_id = NoLevel]_vars

\* a user without verification rights applied an assessment of two mappings:
\* the first had no row and would have created one, the second met an
\* existing row and raised; the first skill still has no row
C22_Witness ==
    /\ ledgerOp.op = "apply"
    /\ ledgerOp.result = "UserError"
    /\ ~Privileged(ledgerOp.user)
    /\ Len(mappings) = 2
    /\ attempt.state = "draft"
    /\ attempt.awarded_level_id = NoLevel
    /\ RawAward(1, attempt.score) # NoLevel
    /\ RowsOf(ledger, attempt.employee_id, mappings[1].skill_id) = {}
    /\ RowsOf(ledger, attempt.employee_id, mappings[2].skill_id) # {}


\* ---- concurrent writers of one rule

\* C23: with two writers each creating a line of the same rule, the check and
\* the commit being separate steps, no state holds two lines of one rule whose
\* intervals intersect
C23_NoIntersectingLines ==
    \A a \in lines, b \in lines :
        (a.id # b.id /\ a.rule_id = b.rule_id) => Disjoint(a, b)


\* ---- the sweep and the ledger

\* C24: a run of the expiry sweep changes no stored field of any ledger row,
\* so the ledger after any number of runs is the ledger before them
C24_SweepKeepsLedger ==
    [][ledgerOp'.op = "sweep" => ledger' = ledger]_vars

\* a sweep on a later day than the rows were written, over a row that is
\* already past its expiry date and was notified to the employee
C24_Witness ==
    /\ ledgerOp.op = "sweep"
    /\ accounts.user_id # NoUser
    /\ \E r \in ledger :
          /\ r.expires_on # NoDate
          /\ r.expires_on < now
          /\ r.last_updated < now
          /\ Notified(r.id, accounts.user_id) = 1


\* ---- the notification sink

\* C25: when the dispatch of the manager's review task fails during submit,
\* the call still returns normally and the request is in manager_review
C25_SinkFailureSwallowed ==
    [][(courseOp'.op = "submit" /\ courseOp'.sink = "fails") =>
          /\ courseOp'.result = "ok"
          /\ \E r \in requests' : r.id = courseOp'.id /\ r.state = "manager_review"]_vars


\* ---- the states of a request

\* C26: whatever sequence of submit, manager approval, HR approval and
\* rejection is applied to requests created in draft, every request is in
\* draft, manager_review, hr_review, approved or rejected; request_info,
\* submitted, in_progress and completed are never produced
C26_NoOtherState ==
    \A r \in requests :
        r.state \in {"draft", "manager_review", "hr_review", "approved", "rejected"}

\* both requests exist and, between them and over the run, a rejection and an
\* HR approval have happened
C26_Witness ==
    /\ Cardinality(requests) = MaxRequests
    /\ \E a, b \in requests : a.state = "rejected" /\ b.state = "approved"
    /\ courseOp.op = "hr_approve"
    /\ courseOp.from = "hr_review"
    /\ courseOp.result = "ok"

\* C28: a request in state approved has approved_on set
C28_ApprovedIsStamped ==
    \A r \in requests : r.state = "approved" => r.approved_on # NoDate

\* a manager approval below the threshold has just approved a request
C28_Witness ==
    /\ courseOp.op = "manager_approve"
    /\ courseOp.result = "ok"
    /\ threshold > 0
    /\ \E r \in requests :
          /\ r.id = courseOp.id
          /\ r.state = "approved"
          /\ total_cost(r) < threshold


\* ---- applying an attempt again

\* the step applies the attempt that the previous step applied
AppliedAgain ==
    /\ ledgerOp.op = "apply"
    /\ ledgerOp'.op = "apply"
    /\ attempt'.employee_id = attempt.employee_id
    /\ attempt'.score = attempt.score

\* C27: when action_apply_result has gone through on an attempt and is run
\* again on it, with nothing else done in between, no ledger row is added or
\* removed and every row keeps its current_level_id, whatever the downgrade
\* setting and when a skill is mapped more than once
C27_ReapplyKeepsLevels ==
    [][(AppliedAgain /\ ledgerOp.result = "ok" /\ attempt.state = "done") =>
          /\ {r.id : r \in ledger'} = {r.id : r \in ledger}
          /\ \A r \in ledger : \A q \in ledger' :
                q.id = r.id => q.current_level_id = r.current_level_id]_vars


\* the attempt was applied by a verifier with downgrades allowed, which left
\* the doubly mapped skill at the later, lower award; the run on the same
\* attempt that has just ended was made by the employee and raised
C27_Witness ==
    /\ ledgerOp.op = "apply"
    /\ ledgerOp.result = "UserError"
    /\ attempt.state = "done"
    /\ config.allow_assessment_downgrade
    /\ \E i, j \in DOMAIN mappings :
          /\ i < j
          /\ mappings[i].skill_id = mappings[j].skill_id
          /\ AwardOf(i, attempt.score) > AwardOf(j, attempt.score)
          /\ AwardOf(j, attempt.score) # NoLevel
          /\ \E r \in ledger :
                /\ r.employee_id = attempt.employee_id
                /\ r.skill_id = mappings[j].skill_id
                /\ r.current_level_id = AwardOf(j, attempt.score)

====
